---- MODULE Spec2Model ----
(***************************************************************************)
(* A model of package enc: the compact binary encoding of Go values.       *)
(*                                                                         *)
(*   - the primitive I/O layer (varints, the encoder's writes, the         *)
(*     decoder's reads with one byte of pushback);                         *)
(*   - the type registry `types` (get / register) and the machines it      *)
(*     builds;                                                             *)
(*   - the entry points EncodeValue and DecodeValue.                       *)
(*                                                                         *)
(* Types are named by strings and described by Desc; values are records    *)
(* tagged with their kind; a stream is a sequence of bytes 0..255.         *)
(* A float is modelled by its IEEE bit pattern (math.Float64bits is a      *)
(* bijection), so the values used are the denormals with small patterns.   *)
(***************************************************************************)
EXTENDS Integers, Sequences, FiniteSets, TLC

VARIABLES
    wt,      \* the type the modelled program works with (fixed per run)
    types,   \* the registry: types.m plus the placeholders' hand-off state
    buf,     \* the byte stream shared by the program's Encode and Decode calls
    last,    \* the record of the last completed entry-point call
    procs    \* concurrent first use: each process's call stack

vars == <<wt, types, buf, last, procs>>

(***************************************************************************)
(* Bounds of the model.                                                    *)
(***************************************************************************)
\* depth to which values of a recursive type are unfolded
MaxDepth == 1
\* number of processes in the concurrent first-use specification
NProcs == 2
\* length of the arbitrary streams a caller hands to Decode
MaxRaw == 2

(***************************************************************************)
(* Bytes and varints (encoding/binary as used by encodeUint / encodeInt).  *)
(***************************************************************************)
ByteBase == 256
ContBit == 128

RECURSIVE PutUvarint(_)
PutUvarint(x) ==
    IF x >= ContBit
    THEN <<(x % ContBit) + ContBit>> \o PutUvarint(x \div ContBit)
    ELSE <<x>>

\* zig-zag: ux = uint64(x) << 1, complemented when x < 0
ZigZag(x) == IF x < 0 THEN (-2 * x) - 1 ELSE 2 * x

UnZigZag(ux) == IF ux % 2 = 1 THEN -((ux \div 2) + 1) ELSE ux \div 2

PutVarint(x) == PutUvarint(ZigZag(x))

\* binary.ReadUvarint on the bytes bs from position pos (1-based, next unread):
\* [ok, val, pos]; at the end of the stream ok is FALSE.
RECURSIVE ReadUvarintAt(_, _, _, _)
ReadUvarintAt(bs, pos, acc, mul) ==
    IF pos > Len(bs)
    THEN [ok |-> FALSE, val |-> 0, pos |-> pos, first |-> (mul = 1)]
    ELSE IF bs[pos] < ContBit
         THEN [ok |-> TRUE, val |-> acc + bs[pos] * mul, pos |-> pos + 1, first |-> FALSE]
         ELSE ReadUvarintAt(bs, pos + 1, acc + (bs[pos] - ContBit) * mul, mul * ContBit)

ReadUvarint(bs, pos) == ReadUvarintAt(bs, pos, 0, 1)

(***************************************************************************)
(* Type descriptors: what register reads through reflect.Type.  The types  *)
(* are those of a program using the package: the primitives, the           *)
(* composites of the tests, a custom-marshal type (like time.Time: a       *)
(* record of unexported fields with MarshalBinary / UnmarshalBinary), two  *)
(* unsupported types, records of two schema versions, and recursive types. *)
(***************************************************************************)
F(t) == [t |-> t, exported |-> TRUE]
Hidden(t) == [t |-> t, exported |-> FALSE]

Desc(t) ==
    CASE t = "bool"         -> [kind |-> "Bool"]
      [] t = "int"          -> [kind |-> "Int"]
      [] t = "uint8"        -> [kind |-> "Uint"]
      [] t = "float64"      -> [kind |-> "Float"]
      [] t = "complex128"   -> [kind |-> "Complex"]
      [] t = "string"       -> [kind |-> "String"]
      [] t = "bytes"        -> [kind |-> "Slice", elem |-> "uint8"]
      [] t = "sliceInt"     -> [kind |-> "Slice", elem |-> "int"]
      [] t = "ptrInt"       -> [kind |-> "Ptr", elem |-> "int"]
      [] t = "arr2"         -> [kind |-> "Array", elem |-> "int", len |-> 2]
      [] t = "arr3"         -> [kind |-> "Array", elem |-> "int", len |-> 3]
      [] t = "mapII"        -> [kind |-> "Map", key |-> "int", elem |-> "int"]
      [] t = "chanInt"      -> [kind |-> "Chan", elem |-> "int", slice |-> "sliceInt"]
      [] t = "chanU8"       -> [kind |-> "Chan", elem |-> "uint8", slice |-> "bytes"]
      [] t = "iface"        -> [kind |-> "Interface"]
      [] t = "func"         -> [kind |-> "Func"]
      [] t = "marsh"        -> [kind |-> "Struct", fields |-> <<Hidden("int")>>]
      [] t = "recBad"       -> [kind |-> "Struct", fields |-> <<F("int"), Hidden("int")>>]
      [] t = "recFn"        -> [kind |-> "Struct", fields |-> <<F("int"), F("func")>>]
      [] t = "recA"         -> [kind |-> "Struct", fields |-> <<F("int"), F("ptrInt")>>]
      [] t = "recB"         -> [kind |-> "Struct", fields |-> <<F("int"), F("ptrInt"), F("int")>>]
      [] t = "recC"         -> [kind |-> "Struct", fields |-> <<F("int"), F("ptrInt"), F("sliceInt")>>]
      [] t = "Node"         -> [kind |-> "Struct", fields |-> <<F("int"), F("sliceNode")>>]
      [] t = "sliceNode"    -> [kind |-> "Slice", elem |-> "Node"]
      [] t = "List"         -> [kind |-> "Struct", fields |-> <<F("int"), F("ptrList")>>]
      [] t = "ptrList"      -> [kind |-> "Ptr", elem |-> "List"]
      [] t = "BadNode"      -> [kind |-> "Struct", fields |-> <<F("sliceBadNode"), F("func")>>]
      [] t = "sliceBadNode" -> [kind |-> "Slice", elem |-> "BadNode"]
      [] t = "Ping"         -> [kind |-> "Struct", fields |-> <<F("int"), F("ptrPong")>>]
      [] t = "ptrPong"      -> [kind |-> "Ptr", elem |-> "Pong"]
      [] t = "Pong"         -> [kind |-> "Struct", fields |-> <<F("ptrPing")>>]
      [] t = "ptrPing"      -> [kind |-> "Ptr", elem |-> "Ping"]
      [] t = "Tree"         -> [kind |-> "Struct", fields |-> <<F("sliceTree")>>]
      [] t = "sliceTree"    -> [kind |-> "Slice", elem |-> "Tree"]
      [] t = "Even"         -> [kind |-> "Slice", elem |-> "Odd"]
      [] t = "Odd"          -> [kind |-> "Slice", elem |-> "Even"]

AllTypes ==
    {"bool", "int", "uint8", "float64", "complex128", "string", "bytes",
     "sliceInt", "ptrInt", "arr2", "arr3", "mapII", "chanInt", "chanU8",
     "iface", "func", "marsh", "recBad", "recFn", "recA", "recB", "recC",
     "Node", "sliceNode", "List", "ptrList", "BadNode", "sliceBadNode"}

Kind(t) == Desc(t).kind

bytesType == "bytes"

\* reflect.PtrTo(t).Implements(marshalerType / unmarshalerType), t.Implements(...)
PtrImplementsMarshaler(t) == t = "marsh"
PtrImplementsUnmarshaler(t) == t = "marsh"
ImplementsMarshaler(t) == t = "marsh"
ImplementsUnmarshaler(t) == FALSE

\* reflect.Type.Comparable
RECURSIVE Comparable(_)
Comparable(t) ==
    LET d == Desc(t) IN
    CASE d.kind \in {"Slice", "Map", "Func"} -> FALSE
      [] d.kind = "Array" -> Comparable(d.elem)
      [] d.kind = "Struct" ->
            \* (a recursive record recurs through a pointer or a slice,
            \* whose comparability does not depend on its element)
            \A i \in 1..Len(d.fields) : Comparable(d.fields[i].t)
      [] OTHER -> TRUE

(***************************************************************************)
(* Values (reflect.Value), tagged with their kind.  A nil pointer, slice,  *)
(* map, channel or interface is distinct from a non-nil empty one, as      *)
(* reflect.DeepEqual and == have it.                                       *)
(***************************************************************************)
VBool(b) == [k |-> "bool", b |-> b]
VInt(n) == [k |-> "int", n |-> n]
VUint(n) == [k |-> "uint", n |-> n]
VFloat(bits) == [k |-> "float", bits |-> bits]
VComplex(re, im) == [k |-> "complex", re |-> re, im |-> im]
VString(s) == [k |-> "string", s |-> s]
NilSlice == [k |-> "slice", nil |-> TRUE, s |-> <<>>]
VSlice(s) == [k |-> "slice", nil |-> FALSE, s |-> s]
VArray(s) == [k |-> "array", s |-> s]
NilMap == [k |-> "map", nil |-> TRUE, kv |-> {}]
VMap(kv) == [k |-> "map", nil |-> FALSE, kv |-> kv]
NilPtr == [k |-> "ptr", nil |-> TRUE]
VPtr(e) == [k |-> "ptr", nil |-> FALSE, e |-> e]
VStruct(f) == [k |-> "struct", f |-> f]
NilChan == [k |-> "chan", nil |-> TRUE]
VChan(cap, q, closed) == [k |-> "chan", nil |-> FALSE, cap |-> cap, q |-> q, closed |-> closed]
NilIface == [k |-> "iface", nil |-> TRUE]
VIface(t, e) == [k |-> "iface", nil |-> FALSE, t |-> t, e |-> e]
\* what v.Elem() of a nil interface and reflect.Indirect of a nil pointer give
Invalid == [k |-> "invalid"]

\* reflect.Zero(t)
RECURSIVE Zero(_)
Zero(t) ==
    LET d == Desc(t) IN
    CASE d.kind = "Bool" -> VBool(FALSE)
      [] d.kind = "Int" -> VInt(0)
      [] d.kind = "Uint" -> VUint(0)
      [] d.kind = "Float" -> VFloat(0)
      [] d.kind = "Complex" -> VComplex(0, 0)
      [] d.kind = "String" -> VString(<<>>)
      [] d.kind = "Slice" -> NilSlice
      [] d.kind = "Map" -> NilMap
      [] d.kind = "Ptr" -> NilPtr
      [] d.kind = "Chan" -> NilChan
      [] d.kind = "Interface" -> NilIface
      [] d.kind = "Func" -> [k |-> "func", nil |-> TRUE]
      [] d.kind = "Array" -> VArray([i \in 1..d.len |-> Zero(d.elem)])
      [] d.kind = "Struct" -> VStruct([i \in 1..Len(d.fields) |-> Zero(d.fields[i].t)])

(***************************************************************************)
(* Machines.                                                               *)
(***************************************************************************)
NilMachine == [kind |-> "nil"]
boolMachine == [kind |-> "bool"]
intMachine == [kind |-> "int"]
uintMachine == [kind |-> "uint"]
floatMachine == [kind |-> "float"]
complexMachine == [kind |-> "complex"]
stringMachine == [kind |-> "string"]
bytesMachine == [kind |-> "bytes"]
interfaceMachine == [kind |-> "interface"]
arrayMachine(l, m) == [kind |-> "array", l |-> l, m |-> m]
chanMachine(t, ts, tc, m, ms) ==
    [kind |-> "chan", t |-> t, ts |-> ts, tc |-> tc, m |-> m, ms |-> ms]
mapMachine(t, k, v) == [kind |-> "map", t |-> t, mk |-> k, mv |-> v]
ptrMachine(t, m) == [kind |-> "ptr", t |-> t, m |-> m]
sliceMachine(t, m) == [kind |-> "slice", t |-> t, m |-> m]
structMachine(ms) == [kind |-> "struct", ms |-> ms]
marshalerMachine(e, d) == [kind |-> "marshaler", e |-> e, d |-> d]
\* compareMachine{z, z.Interface(), ret} with z = reflect.Zero(t)
compareMachine(t, m) == [kind |-> "compare", t |-> t, m |-> m]
\* the placeholder installed for t while t is compiled; its Once, channel
\* and m live in the registry state g.lk[t]
recurseMachine(t) == [kind |-> "recurse", t |-> t]

\* lock := &recurseMachine{c: make(chan machine, 1)}
\* (sent and rcvd count the sends and receives on c)
NewLock == [c |-> <<>>, o |-> "new", m |-> NilMachine, sent |-> 0, rcvd |-> 0]

\* var types = _types{m: make(map[reflect.Type]machine)}
EmptyRegistry == [m |-> <<>>, lk |-> <<>>, builds |-> <<>>]

Put(f, key, x) == IF key \in DOMAIN f THEN [f EXCEPT ![key] = x] ELSE (key :> x) @@ f

\* the element of a singleton; Only({F(x) : x \in {e}}) is F of the value of
\* e, which is evaluated once
Only(S) == CHOOSE x \in S : TRUE

(***************************************************************************)
(* register's case analysis.  Subtypes(t) are the types register resolves  *)
(* with g.get, in order; Switch is the big switch given their machines;    *)
(* Build is the switch, the BinaryMarshaler fallback and the zero-value    *)
(* wrapper.                                                                *)
(***************************************************************************)
\* the index of the first field that is unexported and not embedded, or 0
RECURSIVE FirstHidden(_, _)
FirstHidden(fields, i) ==
    IF i > Len(fields) THEN 0
    ELSE IF ~fields[i].exported THEN i
    ELSE FirstHidden(fields, i + 1)

Subtypes(t) ==
    LET d == Desc(t) IN
    CASE d.kind \in {"Array", "Ptr"} -> <<d.elem>>
      [] d.kind = "Chan" -> <<d.elem, d.slice>>
      [] d.kind = "Map" -> <<d.key, d.elem>>
      [] d.kind = "Slice" -> IF t = bytesType THEN <<>> ELSE <<d.elem>>
      [] d.kind = "Struct" ->
            LET h == FirstHidden(d.fields, 1)
                n == IF h = 0 THEN Len(d.fields) ELSE h - 1
            IN [i \in 1..n |-> d.fields[i].t]
      [] OTHER -> <<>>

\* [ret, early]: early is a `return` inside the switch, which skips the
\* fallback and the wrapper
Switch(t, ms) ==
    LET d == Desc(t) IN
    CASE d.kind = "Bool" -> [ret |-> boolMachine, early |-> TRUE]
      [] d.kind = "Int" -> [ret |-> intMachine, early |-> TRUE]
      [] d.kind = "Uint" -> [ret |-> uintMachine, early |-> TRUE]
      [] d.kind = "Float" -> [ret |-> floatMachine, early |-> TRUE]
      [] d.kind = "Complex" -> [ret |-> complexMachine, early |-> TRUE]
      [] d.kind = "Array" -> [ret |-> arrayMachine(d.len, ms[1]), early |-> FALSE]
      [] d.kind = "Chan" ->
            [ret |-> chanMachine(d.elem, d.slice, t, ms[1], ms[2]), early |-> TRUE]
      [] d.kind = "Interface" -> [ret |-> interfaceMachine, early |-> TRUE]
      [] d.kind = "Map" -> [ret |-> mapMachine(t, ms[1], ms[2]), early |-> TRUE]
      [] d.kind = "Ptr" -> [ret |-> ptrMachine(d.elem, ms[1]), early |-> TRUE]
      [] d.kind = "Slice" ->
            IF t = bytesType
            THEN [ret |-> bytesMachine, early |-> TRUE]
            ELSE [ret |-> sliceMachine(t, ms[1]), early |-> TRUE]
      [] d.kind = "String" -> [ret |-> stringMachine, early |-> TRUE]
      [] d.kind = "Struct" ->
            IF FirstHidden(d.fields, 1) # 0
            THEN [ret |-> NilMachine, early |-> FALSE]    \* break bigswitch
            ELSE [ret |-> structMachine(ms), early |-> FALSE]
      [] OTHER -> [ret |-> NilMachine, early |-> FALSE]

\* the BinaryMarshaler fallback: [ret, panic]
Fallback(t, ret) ==
    IF ret # NilMachine THEN [ret |-> ret, panic |-> FALSE]
    ELSE LET e == PtrImplementsMarshaler(t)
             d == PtrImplementsUnmarshaler(t)
         IN IF ~(e \/ ImplementsMarshaler(t)) /\ ~(d \/ ImplementsUnmarshaler(t))
            THEN [ret |-> NilMachine, panic |-> TRUE]    \* panic(TypeError{t})
            ELSE [ret |-> marshalerMachine(e, d), panic |-> FALSE]

\* "encode zero values as a single 0 byte"
Wrap(t, ret) == IF Comparable(t) THEN compareMachine(t, ret) ELSE ret

\* after the fallback: the wrapper, the last statement of register
Wrapped(t, f) ==
    IF f.panic THEN [ret |-> NilMachine, panic |-> TRUE, perr |-> t]
    ELSE [ret |-> Wrap(t, f.ret), panic |-> FALSE, perr |-> ""]

\* after the switch: an early return, or the fallback and the wrapper
Switched(t, s) ==
    IF s.early THEN [ret |-> s.ret, panic |-> FALSE, perr |-> ""]
    ELSE Wrapped(t, Fallback(t, s.ret))

\* [ret, panic, perr]: panic is panic(TypeError{t}), perr the type it names
Build(t, ms) == Switched(t, Switch(t, ms))

(***************************************************************************)
(* get and register, run by one goroutine without interruption (the        *)
(* concurrent specification below runs the same steps one at a time).      *)
(* The result is [g, ret, panic, perr]: panic is the TypeError panic, perr *)
(* the type it names.                                                      *)
(***************************************************************************)
\* g.Lock(); lock := ...; g.m[t] = lock; g.Unlock()
Install(g, t) ==
    [g EXCEPT !.m = Put(g.m, t, recurseMachine(t)),
              !.lk = Put(g.lk, t, NewLock),
              !.builds = Put(g.builds, t, IF t \in DOMAIN g.builds THEN g.builds[t] + 1 ELSE 1)]

\* the deferred function: g.Lock(); g.m[t] = ret; g.Unlock()
Store(g, t, ret) == [g EXCEPT !.m = Put(g.m, t, ret)]

\* a deferred function that stores ret and sends nothing
NoHandOff(g, t, ret) == g

\* the deferred function: lock.c <- ret
HandOff(g, t, ret) == [g EXCEPT !.lk[t].c = Append(@, ret), !.lk[t].sent = @ + 1]

Publish(g, t, ret) == HandOff(Store(g, t, ret), t, ret)

\* ret, ok := g.m[t] under the read lock
Present(g, t) == t \in DOMAIN g.m

\* if r, ok := g.m[t]; ok under the exclusive lock
Rechecked(g, t) == t \in DOMAIN g.m

\* register's return through its deferred function; b is what the body
\* left in ret (nil when it panicked)
Deferred(g, t, b) ==
    [g |-> Publish(g, t, b.ret), ret |-> b.ret, panic |-> b.panic, perr |-> b.perr]

\* the body of register once the g.get calls of the switch have returned r
Body(t, r) ==
    Deferred(r.g, t, IF r.panic
                     THEN [ret |-> NilMachine, panic |-> TRUE, perr |-> r.perr]
                     ELSE Build(t, r.ms))

RECURSIVE get(_, _)
RECURSIVE register(_, _)
RECURSIVE getAll(_, _, _)
RECURSIVE getNext(_, _, _)

get(g, t) ==
    IF Present(g, t)
    THEN [g |-> g, ret |-> g.m[t], panic |-> FALSE, perr |-> ""]
    ELSE register(g, t)

\* the g.get calls of the switch, in order; stops at the first panic
getAll(g, ts, ms) ==
    IF Len(ms) = Len(ts)
    THEN [g |-> g, ms |-> ms, panic |-> FALSE, perr |-> ""]
    ELSE getNext(ts, ms, get(g, ts[Len(ms) + 1]))

\* r is what the g.get call for ts[Len(ms) + 1] returned
getNext(ts, ms, r) ==
    IF r.panic THEN [g |-> r.g, ms |-> ms, panic |-> TRUE, perr |-> r.perr]
    ELSE getAll(r.g, ts, Append(ms, r.ret))

register(g, t) ==
    IF Rechecked(g, t)
    THEN [g |-> g, ret |-> g.m[t], panic |-> FALSE, perr |-> ""]
    ELSE Body(t, getAll(Install(g, t), Subtypes(t), <<>>))

(***************************************************************************)
(* The encoder.  e is the encoder and the state of the call:               *)
(*   w      what e.w holds: "direct" (the caller's writer) or "nil"        *)
(*   s      the caller's stream: whether it has the byte-at-a-time      *)
(*          methods, and whether it fails, after accepting s.limit bytes   *)
(*   out    the bytes the stream has accepted                              *)
(*   st     "ok", or the panic that is unwinding the call: "noPanic" (an   *)
(*          error wrapped for the entry point), "TypeError", "runtime" (a  *)
(*          Go runtime or reflect panic), or "blocked" (the goroutine      *)
(*          waits forever)                                                 *)
(*   err    what the panic carries                                         *)
(*   nio    calls issued to the caller's stream                            *)
(*   failed, late   a call to the stream has failed; calls issued after it *)
(*   g      the registry                                                   *)
(*   ord    the order in which this call's MapKeys lists keys              *)
(***************************************************************************)
Panic(c, st, err) == IF c.st = "ok" THEN [c EXCEPT !.st = st, !.err = err] ELSE c

Min(a, b) == IF a < b THEN a ELSE b

\* a write whose error is dropped
WriteUnchecked(e, b) ==
    LET room == IF ~e.s.fails THEN Len(b) ELSE Min(Len(b), e.s.limit - Len(e.out))
    IN [e EXCEPT !.out = @ \o SubSeq(b, 1, room),
                 !.nio = @ + 1,
                 !.late = IF e.failed THEN @ + 1 ELSE @,
                 !.failed = @ \/ room < Len(b)]

\* e.w.Write / WriteByte / WriteString on the caller's stream; an error
\* is panic(noPanic{err})
SinkWrite(e, b) ==
    LET room == IF ~e.s.fails THEN Len(b) ELSE Min(Len(b), e.s.limit - Len(e.out))
        e1 == [e EXCEPT !.out = @ \o SubSeq(b, 1, room),
                        !.nio = @ + 1,
                        !.late = IF e.failed THEN @ + 1 ELSE @]
    IN IF room = Len(b) THEN e1
       ELSE Panic([e1 EXCEPT !.failed = TRUE], "noPanic", "io")

write(e, b) ==
    IF e.st # "ok" THEN e
    ELSE IF e.w = "nil" THEN Panic(e, "runtime", "nil pointer dereference")
    ELSE SinkWrite(e, b)

writeByte(e, b) == write(e, <<b>>)

writeString(e, s) == write(e, s)

encodeUint(e, u) == write(e, PutUvarint(u))

encodeInt(e, i) == write(e, PutVarint(i))

\* the program's custom-marshal type: MarshalBinary of its values.  The
\* value with id 1 marshals to an empty payload, the one with id 3 fails.
MarshalBinary(v) ==
    LET id == v.f[1].n IN
    CASE id = 0 -> [ok |-> TRUE, b |-> <<0>>]
      [] id = 1 -> [ok |-> TRUE, b |-> <<>>]
      [] id = 2 -> [ok |-> TRUE, b |-> <<7>>]
      [] OTHER -> [ok |-> FALSE, b |-> <<>>]

UnmarshalBinary(b) ==
    CASE b = <<0>> -> [ok |-> TRUE, v |-> VStruct(<<VInt(0)>>)]
      [] b = <<>> -> [ok |-> TRUE, v |-> VStruct(<<VInt(1)>>)]
      [] b = <<7>> -> [ok |-> TRUE, v |-> VStruct(<<VInt(2)>>)]
      [] OTHER -> [ok |-> FALSE, v |-> VStruct(<<VInt(0)>>)]

\* v.MapKeys(): the pairs in the order this call iterates them
RECURSIVE MapPairs(_, _)
MapPairs(kv, ord) ==
    IF kv = {} THEN <<>>
    ELSE LET p == CHOOSE p \in kv : \A q \in kv :
                    IF ord = "asc" THEN p[1].n <= q[1].n ELSE p[1].n >= q[1].n
         IN <<p>> \o MapPairs(kv \ {p}, ord)

\* m.o.Do: the first caller enters the function
Enter(g, t) == [g EXCEPT !.lk[t].o = "running"]

\* m.m = <-m.c, and the Once is done
Receive(g, t) ==
    [g EXCEPT !.lk[t] = [@ EXCEPT !.c = Tail(@), !.o = "done", !.m = Head(g.lk[t].c),
                                  !.rcvd = @ + 1]]

\* m.o.Do(func() { m.m = <-m.c }): [g, m, ready]
Resolve(g, t) ==
    LET lk == g.lk[t] IN
    IF lk.o = "done" THEN [g |-> g, m |-> lk.m, ready |-> TRUE]
    ELSE IF lk.c = <<>> THEN [g |-> g, m |-> NilMachine, ready |-> FALSE]
    ELSE [g |-> Receive(Enter(g, t), t), m |-> Head(lk.c), ready |-> TRUE]

RECURSIVE encode(_, _, _)
RECURSIVE encodeElems(_, _, _, _)
RECURSIVE encodeFields(_, _, _, _)
RECURSIVE encodePairs(_, _, _, _)

\* for i := 0; i < l; i++ { m.encode(e, v.Index(i)) }
encodeElems(m, e, vs, i) ==
    IF i > Len(vs) \/ e.st # "ok" THEN e
    ELSE encodeElems(m, encode(m, e, vs[i]), vs, i + 1)

\* for i, m := range m { m.encode(e, v.Field(i)) }
encodeFields(ms, e, fs, i) ==
    IF i > Len(ms) \/ e.st # "ok" THEN e
    ELSE encodeFields(ms, encode(ms[i], e, fs[i]), fs, i + 1)

\* for _, k := range v.MapKeys() { m.k.encode(e, k); m.v.encode(e, v.MapIndex(k)) }
encodePairs(m, e, ps, i) ==
    IF i > Len(ps) \/ e.st # "ok" THEN e
    ELSE encodePairs(m, encode(m.mv, encode(m.mk, e, ps[i][1]), ps[i][2]), ps, i + 1)

recurseEncode(m, e, v) ==
    Only({IF ~r.ready THEN Panic(e, "blocked", "recurseMachine")
          ELSE encode(r.m, [e EXCEPT !.g = r.g], v) : r \in {Resolve(e.g, m.t)}})

compareEncode(m, e, v) ==
    IF v = Zero(m.t) THEN writeByte(e, 0) ELSE encode(m.m, e, v)

boolEncode(e, v) == IF v.b THEN writeByte(e, 1) ELSE writeByte(e, 0)

intEncode(e, v) == encodeInt(e, v.n)

uintEncode(e, v) == encodeUint(e, v.n)

\* e.encodeUint(math.Float64bits(v.Float()))
floatEncode(e, v) == encodeUint(e, v.bits)

complexEncode(e, v) == encodeUint(encodeUint(e, v.re), v.im)

arrayEncode(m, e, v) == encodeElems(m.m, encodeUint(e, m.l), SubSeq(v.s, 1, m.l), 1)

\* a nil channel is a 0 byte; otherwise the channel is drained into a slice
\* until it is closed, and the slice is encoded
chanEncode(m, e, v) ==
    IF v.nil THEN writeByte(e, 0)
    ELSE IF ~v.closed THEN Panic(e, "blocked", "chan receive")
    ELSE encode(m.ms, e, VSlice(v.q))

\* a nil interface is a 0 byte; otherwise v = v.Elem() is encoded with the
\* machine of its dynamic type
interfaceEncode(e, v) ==
    IF v.nil THEN writeByte(e, 0)
    ELSE Only({IF r.panic THEN Panic([e EXCEPT !.g = r.g], "TypeError", r.perr)
               ELSE encode(r.ret, [e EXCEPT !.g = r.g], v.e) : r \in {get(e.g, v.t)}})

mapEncode(m, e, v) ==
    encodePairs(m, encodeUint(e, Cardinality(v.kv)), MapPairs(v.kv, e.ord), 1)

ptrEncode(m, e, v) == IF v.nil THEN writeByte(e, 0) ELSE encode(m.m, e, v.e)

sliceEncode(m, e, v) == encodeElems(m.m, encodeUint(e, Len(v.s)), v.s, 1)

stringEncode(e, v) == writeString(encodeUint(e, Len(v.s)), v.s)

structEncode(m, e, v) == encodeFields(m.ms, encodeUint(e, Len(m.ms)), v.f, 1)

bytesEncode(e, v) == write(encodeUint(e, Len(v.s)), [i \in 1..Len(v.s) |-> v.s[i].n])

\* (v.Addr() succeeds: the program hands Encode a pointer, and the type is
\* no element of a map or an interface)
marshalerEncode(e, v) ==
    Only({IF ~r.ok THEN Panic(e, "noPanic", "marshal")
          ELSE write(encodeUint(e, Len(r.b)), r.b) : r \in {MarshalBinary(v)}})

\* m.encode(e, v): the method of the machine m; a nil machine is a nil
\* interface value, and calling its method panics
encode(m, e, v) ==
    IF e.st # "ok" THEN e
    ELSE CASE m.kind = "nil" -> Panic(e, "runtime", "nil pointer dereference")
      [] m.kind = "recurse" -> recurseEncode(m, e, v)
      [] m.kind = "compare" -> compareEncode(m, e, v)
      [] m.kind = "bool" -> boolEncode(e, v)
      [] m.kind = "int" -> intEncode(e, v)
      [] m.kind = "uint" -> uintEncode(e, v)
      [] m.kind = "float" -> floatEncode(e, v)
      [] m.kind = "complex" -> complexEncode(e, v)
      [] m.kind = "array" -> arrayEncode(m, e, v)
      [] m.kind = "chan" -> chanEncode(m, e, v)
      [] m.kind = "interface" -> interfaceEncode(e, v)
      [] m.kind = "map" -> mapEncode(m, e, v)
      [] m.kind = "ptr" -> ptrEncode(m, e, v)
      [] m.kind = "slice" -> sliceEncode(m, e, v)
      [] m.kind = "string" -> stringEncode(e, v)
      [] m.kind = "struct" -> structEncode(m, e, v)
      [] m.kind = "bytes" -> bytesEncode(e, v)
      [] m.kind = "marshaler" -> marshalerEncode(e, v)

\* what the entry point's deferred recover makes of the call's state
Outcome(c) ==
    CASE c.st = "ok" -> "ok"
      [] c.st = "noPanic" -> "error"
      [] c.st = "blocked" -> "blocked"
      [] OTHER -> "panic"

\* e := encoder{}: e.w is set only when w is a `writer` (Write, WriteByte,
\* WriteString); otherwise w is wrapped in a bufio.Writer that e.w never
\* receives
NewEncoder(g, s, ord) ==
    [w |-> IF s.byteCapable THEN "direct" ELSE "nil",
     s |-> s, out |-> <<>>, st |-> "ok", err |-> "",
     nio |-> 0, failed |-> FALSE, late |-> 0, g |-> g, ord |-> ord]

\* types.get(v.Type()).encode(&e, v)
StartEncode(e, r, v) ==
    IF r.panic THEN Panic([e EXCEPT !.g = r.g], "TypeError", r.perr)
    ELSE encode(r.ret, [e EXCEPT !.g = r.g], v)

\* EncodeValue(w, v), v of type t
EncodeValue(g, s, ord, t, v) == StartEncode(NewEncoder(g, s, ord), get(g, t), v)

(***************************************************************************)
(* The decoder.  d is the decoder and the state of the call: bs the bytes  *)
(* of the caller's stream, pos the next unread position, s the stream (it  *)
(* delivers s.limit bytes and then fails with an I/O error, or never fails *)
(* and ends with EOF), and st, err, nio, failed, late, g as for the        *)
(* encoder.                                                                *)
(* An operation on the stream returns the decoder with what it read; a     *)
(* machine returns the decoder with the new content of the destination.    *)
(***************************************************************************)
\* the bytes the stream can deliver
Avail(d) == IF ~d.s.fails THEN Len(d.bs) ELSE Min(d.s.limit, Len(d.bs))

\* what a read past the deliverable bytes reports
PastEnd(d, eof) == IF d.s.fails /\ d.s.limit < Len(d.bs) THEN "io" ELSE eof

Issued(d, n) == [d EXCEPT !.nio = @ + n, !.late = IF d.failed THEN @ + n ELSE @]

ReadFail(d, n, pos, err) ==
    Panic([Issued(d, n) EXCEPT !.pos = pos, !.failed = TRUE], "noPanic", err)

readByte(d) ==
    IF d.st # "ok" THEN [d |-> d, b |-> 0]
    ELSE IF d.pos > Avail(d)
         THEN [d |-> ReadFail(d, 1, d.pos, PastEnd(d, "EOF")), b |-> 0]
         ELSE [d |-> [Issued(d, 1) EXCEPT !.pos = @ + 1], b |-> d.bs[d.pos]]

\* after a successful readByte
unreadByte(d) == IF d.st # "ok" THEN d ELSE [d EXCEPT !.pos = @ - 1]

\* r is what binary.ReadUvarint made of the deliverable bytes
decodedUint(d, r) ==
    IF r.ok
    THEN [d |-> [Issued(d, r.pos - d.pos) EXCEPT !.pos = r.pos], x |-> r.val]
    ELSE [d |-> ReadFail(d, (r.pos - d.pos) + 1, r.pos,
                         PastEnd(d, IF r.first THEN "EOF" ELSE "UnexpectedEOF")),
          x |-> 0]

decodeUint(d) ==
    IF d.st # "ok" THEN [d |-> d, x |-> 0]
    ELSE decodedUint(d, ReadUvarint(SubSeq(d.bs, 1, Avail(d)), d.pos))

decodeInt(d) == Only({[d |-> r.d, x |-> UnZigZag(r.x)] : r \in {decodeUint(d)}})

\* io.ReadFull of size bytes; io.EOF is reported as io.ErrUnexpectedEOF
read(d, size) ==
    IF d.st # "ok" THEN [d |-> d, b |-> <<>>]
    ELSE IF size = 0 THEN [d |-> d, b |-> <<>>]
    ELSE IF d.pos + size - 1 <= Avail(d)
         THEN [d |-> [Issued(d, 1) EXCEPT !.pos = @ + size],
               b |-> SubSeq(d.bs, d.pos, d.pos + size - 1)]
         ELSE [d |-> ReadFail(d, 1, Avail(d) + 1, PastEnd(d, "UnexpectedEOF")), b |-> <<>>]

\* buf := make([]byte, d.decodeUint()); d.read(buf)
readSized(d) == Only({read(r.d, r.x) : r \in {decodeUint(d)}})

R(d, v) == [d |-> d, v |-> v]

\* v.Set(x) and its kin: reflect panics when v is not settable
Set(d, old, new, settable) ==
    IF d.st # "ok" THEN R(d, old)
    ELSE IF ~settable THEN R(Panic(d, "runtime", "reflect: unaddressable value"), old)
    ELSE R(d, new)

\* r is what d.readByte() returned
zeroByte(r, v, z, settable) ==
    IF r.d.st # "ok" THEN [d |-> r.d, v |-> v, zero |-> FALSE]
    ELSE IF r.b = 0
         THEN Only({[d |-> x.d, v |-> x.v, zero |-> TRUE] : x \in {Set(r.d, v, z, settable)}})
         ELSE [d |-> unreadByte(r.d), v |-> v, zero |-> FALSE]

\* [d, v, zero]
decodeZero(d, v, z, settable) == zeroByte(readByte(d), v, z, settable)

\* v.Send(e) on the channel c: [d, v]
Send(d, c, x) ==
    IF d.st # "ok" THEN R(d, c)
    ELSE IF c.closed THEN R(Panic(d, "runtime", "send on closed channel"), c)
    ELSE IF Len(c.q) >= c.cap THEN R(Panic(d, "blocked", "chan send"), c)
    ELSE R(d, [c EXCEPT !.q = Append(@, x)])

SetMapIndex(kv, key, val) == {p \in kv : p[1] # key} \cup {<<key, val>>}

RECURSIVE decode(_, _, _, _)
RECURSIVE decodeElems(_, _, _, _, _)
RECURSIVE decodeFields(_, _, _, _, _)
RECURSIVE decodeSends(_, _, _, _, _)
RECURSIVE decodePairs(_, _, _, _, _)

\* for i := 0; i < l; i++ { m.decode(d, v.Index(i)) }: [d, v] with v the elements
decodeElems(m, d, vs, i, l) ==
    IF i > l \/ d.st # "ok" THEN R(d, vs)
    ELSE Only({decodeElems(m, r.d, [vs EXCEPT ![i] = r.v], i + 1, l) :
               r \in {decode(m, d, vs[i], TRUE)}})

\* for i := 0; i < l; i++ { m[i].decode(d, v.Field(i)) }
decodeFields(ms, d, fs, i, l) ==
    IF i > l \/ d.st # "ok" THEN R(d, fs)
    ELSE Only({decodeFields(ms, r.d, [fs EXCEPT ![i] = r.v], i + 1, l) :
               r \in {decode(ms[i], d, fs[i], TRUE)}})

\* for i := 0; i < l; i++ { e := reflect.New(m.t).Elem(); m.m.decode(d, e); v.Send(e) }
decodeSends(m, d, c, i, l) ==
    IF i > l \/ d.st # "ok" THEN R(d, c)
    ELSE Only({Only({decodeSends(m, x.d, x.v, i + 1, l) : x \in {Send(r.d, c, r.v)}}) :
               r \in {decode(m.m, d, Zero(m.t), TRUE)}})

\* for i := 0; i < l; i++ { decode a key and an element; v.SetMapIndex(key, elem) }
decodePairs(m, d, kv, i, l) ==
    IF i > l \/ d.st # "ok" THEN R(d, kv)
    ELSE Only({Only({IF x.d.st # "ok" THEN R(x.d, kv)
                     ELSE decodePairs(m, x.d, SetMapIndex(kv, k.v, x.v), i + 1, l) :
                     x \in {decode(m.mv, k.d, Zero(Desc(m.t).elem), TRUE)}}) :
               k \in {decode(m.mk, d, Zero(Desc(m.t).key), TRUE)}})

recurseDecode(m, d, v, settable) ==
    Only({IF ~r.ready THEN R(Panic(d, "blocked", "recurseMachine"), v)
          ELSE decode(r.m, [d EXCEPT !.g = r.g], v, settable) : r \in {Resolve(d.g, m.t)}})

compareDecode(m, d, v, settable) ==
    Only({IF z.zero \/ z.d.st # "ok" THEN R(z.d, z.v)
          ELSE decode(m.m, z.d, v, settable) : z \in {decodeZero(d, v, Zero(m.t), settable)}})

boolDecode(d, v, settable) ==
    Only({Set(r.d, v, VBool(r.b = 1), settable) : r \in {readByte(d)}})

intDecode(d, v, settable) ==
    Only({Set(r.d, v, VInt(r.x), settable) : r \in {decodeInt(d)}})

\* SetUint keeps the low bits that fit the destination (uint8 here)
uintDecode(d, v, settable) ==
    Only({Set(r.d, v, VUint(r.x % ByteBase), settable) : r \in {decodeUint(d)}})

floatDecode(d, v, settable) ==
    Only({Set(r.d, v, VFloat(r.x), settable) : r \in {decodeUint(d)}})

complexDecode(d, v, settable) ==
    Only({Only({Set(im.d, v, VComplex(re.x, im.x), settable) : im \in {decodeUint(re.d)}}) :
          re \in {decodeUint(d)}})

\* l := int(d.decodeUint()); only min(m.l, l) elements are read
arrayDecode(m, d, v) ==
    Only({Only({R(x.d, VArray(x.v)) : x \in {decodeElems(m.m, r.d, v.s, 1, Min(m.l, r.x))}}) :
          r \in {decodeUint(d)}})

\* l := int(d.decodeUint()); only min(len(m), l) fields are read
structDecode(m, d, v) ==
    Only({Only({R(x.d, VStruct(x.v)) :
                x \in {decodeFields(m.ms, r.d, v.f, 1, Min(Len(m.ms), r.x))}}) :
          r \in {decodeUint(d)}})

\* after decodeZero: l := int(d.decodeUint()); a nil v is made with
\* capacity l; then l elements are sent
chanFill(m, d, v, settable) ==
    Only({Only({decodeSends(m, c.d, c.v, 1, r.x) :
                c \in {IF v.nil THEN Set(r.d, v, VChan(r.x, <<>>, FALSE), settable)
                       ELSE R(r.d, v)}}) :
          r \in {decodeUint(d)}})

chanDecode(m, d, v, settable) ==
    Only({IF z.zero \/ z.d.st # "ok" THEN R(z.d, z.v)
          ELSE chanFill(m, z.d, v, settable) : z \in {decodeZero(d, v, NilChan, settable)}})

\* after decodeZero: v = v.Elem(); types.get(v.Type()).decode(d, v)
interfaceElem(d, v) ==
    IF v.nil
    \* v.Elem() is the zero Value; v.Type() panics
    THEN R(Panic(d, "runtime", "reflect: call of Value.Type on zero Value"), v)
    ELSE Only({IF r.panic THEN R(Panic([d EXCEPT !.g = r.g], "TypeError", r.perr), v)
               ELSE Only({R(x.d, VIface(v.t, x.v)) :
                          x \in {decode(r.ret, [d EXCEPT !.g = r.g], v.e, FALSE)}}) :
               r \in {get(d.g, v.t)}})

interfaceDecode(d, v, settable) ==
    Only({IF z.zero \/ z.d.st # "ok" THEN R(z.d, z.v)
          ELSE interfaceElem(z.d, v) : z \in {decodeZero(d, v, NilIface, settable)}})

\* v.Set(reflect.MakeMap(m.t)); then the pairs
mapDecode(m, d, v, settable) ==
    Only({Only({Only({R(x.d, IF s.d.st = "ok" THEN VMap(x.v) ELSE v) :
                      x \in {decodePairs(m, r.d, s.v.kv, 1, r.x)}}) :
                r \in {decodeUint(s.d)}}) :
          s \in {Set(d, v, VMap({}), settable)}})

\* after decodeZero: if v.IsNil() { v.Set(reflect.New(m.t)) }; m.m.decode(d, v.Elem())
ptrElem(m, d, v, settable) ==
    Only({IF p.d.st # "ok" THEN p
          ELSE Only({R(x.d, VPtr(x.v)) : x \in {decode(m.m, p.d, p.v.e, TRUE)}}) :
          p \in {IF v.nil THEN Set(d, v, VPtr(Zero(m.t)), settable) ELSE R(d, v)}})

ptrDecode(m, d, v, settable) ==
    Only({IF z.zero \/ z.d.st # "ok" THEN R(z.d, z.v)
          ELSE ptrElem(m, z.d, v, settable) : z \in {decodeZero(d, v, NilPtr, settable)}})

\* l := int(d.decodeUint()); v.Set(reflect.MakeSlice(m.t, l, l)); then the elements
sliceDecode(m, d, v, settable) ==
    Only({Only({IF s.d.st # "ok" THEN s
                ELSE Only({R(x.d, VSlice(x.v)) : x \in {decodeElems(m.m, s.d, s.v.s, 1, r.x)}}) :
                s \in {Set(r.d, v, VSlice([i \in 1..r.x |-> Zero(Desc(m.t).elem)]), settable)}}) :
          r \in {decodeUint(d)}})

stringDecode(d, v, settable) ==
    Only({Set(b.d, v, VString(b.b), settable) : b \in {readSized(d)}})

bytesDecode(d, v, settable) ==
    Only({Set(b.d, v, VSlice([i \in 1..Len(b.b) |-> VUint(b.b[i])]), settable) :
          b \in {readSized(d)}})

\* b is the payload read; u what UnmarshalBinary makes of it
unmarshaled(b, u, v) ==
    IF b.d.st # "ok" THEN R(b.d, v)
    ELSE IF ~u.ok THEN R(Panic(b.d, "noPanic", "unmarshal"), v)
    ELSE R(b.d, u.v)

\* if m.d { v = v.Addr() }; then the payload is read and unmarshaled
marshalerDecode(m, d, v, settable) ==
    IF m.d /\ ~settable
    THEN R(Panic(d, "runtime", "reflect: Addr of unaddressable value"), v)
    ELSE Only({unmarshaled(b, UnmarshalBinary(b.b), v) : b \in {readSized(d)}})

\* m.decode(d, v): the method of the machine m
decode(m, d, v, settable) ==
    IF d.st # "ok" THEN R(d, v)
    ELSE CASE m.kind = "nil" -> R(Panic(d, "runtime", "nil pointer dereference"), v)
      [] m.kind = "recurse" -> recurseDecode(m, d, v, settable)
      [] m.kind = "compare" -> compareDecode(m, d, v, settable)
      [] m.kind = "bool" -> boolDecode(d, v, settable)
      [] m.kind = "int" -> intDecode(d, v, settable)
      [] m.kind = "uint" -> uintDecode(d, v, settable)
      [] m.kind = "float" -> floatDecode(d, v, settable)
      [] m.kind = "complex" -> complexDecode(d, v, settable)
      [] m.kind = "array" -> arrayDecode(m, d, v)
      [] m.kind = "struct" -> structDecode(m, d, v)
      [] m.kind = "chan" -> chanDecode(m, d, v, settable)
      [] m.kind = "interface" -> interfaceDecode(d, v, settable)
      [] m.kind = "map" -> mapDecode(m, d, v, settable)
      [] m.kind = "ptr" -> ptrDecode(m, d, v, settable)
      [] m.kind = "slice" -> sliceDecode(m, d, v, settable)
      [] m.kind = "string" -> stringDecode(d, v, settable)
      [] m.kind = "bytes" -> bytesDecode(d, v, settable)
      [] m.kind = "marshaler" -> marshalerDecode(m, d, v, settable)

\* d := decoder{}; d.r is r when it is a `reader` (Read, ReadByte,
\* UnreadByte), else a bufio.Reader on r
NewDecoder(g, s, bs) ==
    [bs |-> bs, pos |-> 1, s |-> s, st |-> "ok", err |-> "",
     nio |-> 0, failed |-> FALSE, late |-> 0, g |-> g]

\* types.get(v.Type()).decode(&d, v)
StartDecode(d, r, dst) ==
    IF r.panic THEN R(Panic([d EXCEPT !.g = r.g], "TypeError", r.perr), dst)
    ELSE decode(r.ret, [d EXCEPT !.g = r.g], dst, TRUE)

\* DecodeValue(r, v), v a pointer to a destination of type t holding dst
DecodeValue(g, s, bs, t, dst) == StartDecode(NewDecoder(g, s, bs), get(g, t), dst)

(***************************************************************************)
(* The inputs: for each type the values a call is made with, and the       *)
(* destinations a Decode call is given.                                    *)
(***************************************************************************)
IntVals == {-1, 0, 1, 64}
U8Vals == {0, 1, 200}
FloatBits == {0, 1, 300}

RECURSIVE Values(_, _)
Values(t, depth) ==
    CASE t = "bool" -> {VBool(b) : b \in BOOLEAN}
      [] t = "int" -> {VInt(n) : n \in IntVals}
      [] t = "uint8" -> {VUint(n) : n \in U8Vals}
      [] t = "float64" -> {VFloat(b) : b \in FloatBits}
      [] t = "complex128" -> {VComplex(re, im) : re \in {0, 1}, im \in {0, 300}}
      [] t = "string" -> {VString(x) : x \in {<<>>, <<0>>, <<65, 200>>}}
      [] t = "bytes" ->
            {NilSlice, VSlice(<<>>), VSlice(<<VUint(0)>>), VSlice(<<VUint(200), VUint(1)>>)}
      [] t = "sliceInt" ->
            {NilSlice, VSlice(<<>>), VSlice(<<VInt(0)>>), VSlice(<<VInt(64), VInt(-1)>>)}
      [] t = "ptrInt" -> {NilPtr} \cup {VPtr(VInt(n)) : n \in {0, 1}}
      [] t = "arr2" -> {VArray(<<VInt(a), VInt(b)>>) : a \in {0, 1}, b \in {0, 64}}
      [] t = "arr3" -> {VArray(<<VInt(a), VInt(b), VInt(c)>>) : a \in {0, 1}, b \in {0}, c \in {0, 1}}
      [] t = "mapII" ->
            {NilMap, VMap({}), VMap({<<VInt(1), VInt(0)>>}),
             VMap({<<VInt(1), VInt(64)>>, <<VInt(-1), VInt(1)>>})}
      [] t = "chanInt" ->
            {NilChan, VChan(0, <<>>, TRUE), VChan(0, <<VInt(0)>>, TRUE),
             VChan(0, <<VInt(1), VInt(64)>>, TRUE), VChan(1, <<VInt(1)>>, FALSE)}
      [] t = "chanU8" ->
            {NilChan, VChan(0, <<VUint(1)>>, TRUE), VChan(0, <<VUint(200)>>, TRUE),
             VChan(0, <<VUint(200), VUint(1)>>, TRUE)}
      [] t = "iface" ->
            {NilIface, VIface("int", VInt(0)), VIface("int", VInt(1)),
             VIface("ptrInt", VPtr(VInt(0))), VIface("ptrInt", VPtr(VInt(1))),
             VIface("func", [k |-> "func", nil |-> FALSE])}
      [] t = "func" -> {[k |-> "func", nil |-> FALSE]}
      [] t = "marsh" -> {VStruct(<<VInt(id)>>) : id \in 0..3}
      [] t = "recBad" -> {VStruct(<<VInt(1), VInt(0)>>)}
      [] t = "recFn" -> {VStruct(<<VInt(1), [k |-> "func", nil |-> TRUE]>>)}
      [] t = "recA" ->
            {VStruct(<<x, p>>) : x \in {VInt(0), VInt(1)}, p \in Values("ptrInt", depth)}
      [] t = "recB" ->
            {VStruct(<<x, p, y>>) : x \in {VInt(0), VInt(1)}, p \in {NilPtr, VPtr(VInt(1))},
                                    y \in {VInt(0), VInt(-1)}}
      [] t = "recC" ->
            {VStruct(<<x, p, y>>) : x \in {VInt(0), VInt(1)}, p \in {NilPtr, VPtr(VInt(1))},
                                    y \in {NilSlice, VSlice(<<VInt(1)>>)}}
      [] t = "Node" ->
            {VStruct(<<x, NilSlice>>) : x \in {VInt(0), VInt(1)}}
            \cup (IF depth = 0 THEN {}
                  ELSE {VStruct(<<x, y>>) : x \in {VInt(0), VInt(1)},
                                            y \in Values("sliceNode", depth - 1) \ {NilSlice}})
      [] t = "sliceNode" ->
            {NilSlice, VSlice(<<>>)} \cup {VSlice(<<n>>) : n \in Values("Node", depth)}
      [] t = "List" ->
            {VStruct(<<x, NilPtr>>) : x \in {VInt(0), VInt(1)}}
            \cup (IF depth = 0 THEN {}
                  ELSE {VStruct(<<x, y>>) : x \in {VInt(0), VInt(1)},
                                            y \in Values("ptrList", depth - 1) \ {NilPtr}})
      [] t = "ptrList" -> {NilPtr} \cup {VPtr(n) : n \in Values("List", depth)}
      [] t = "BadNode" -> {VStruct(<<NilSlice, [k |-> "func", nil |-> TRUE]>>)}
      [] t = "sliceBadNode" ->
            {NilSlice, VSlice(<<VStruct(<<NilSlice, [k |-> "func", nil |-> TRUE]>>)>>)}

\* a destination is fresh (reflect.New(t)) or already holds a value
Dests(t) ==
    {Zero(t)} \cup
    (CASE t = "iface" -> {VIface("int", VInt(0)), VIface("ptrInt", VPtr(VInt(0)))}
       [] t = "chanInt" -> {VChan(1, <<>>, FALSE), VChan(0, <<>>, FALSE)}
       [] t = "chanU8" -> {VChan(1, <<>>, FALSE)}
       [] t = "ptrInt" -> {VPtr(VInt(64))}
       [] t = "recA" -> {VStruct(<<VInt(64), VPtr(VInt(64))>>)}
       [] t = "recB" -> {VStruct(<<VInt(64), VPtr(VInt(64)), VInt(64)>>)}
       [] t = "recC" -> {VStruct(<<VInt(64), VPtr(VInt(64)), VSlice(<<VInt(64)>>)>>)}
       [] t = "arr2" -> {VArray(<<VInt(64), VInt(64)>>)}
       [] t = "arr3" -> {VArray(<<VInt(64), VInt(64), VInt(64)>>)}
       [] t = "sliceInt" -> {VSlice(<<VInt(64)>>)}
       [] t = "mapII" -> {VMap({<<VInt(64), VInt(64)>>})}
       [] OTHER -> {})

\* the types a program working with wt passes to Encode and Decode: wt,
\* the later versions of its schema, and the parts of an unsupported type
Readers(t) ==
    CASE t = "recA" -> {"recB", "recC"}
      [] t = "arr2" -> {"arr3"}
      [] t = "recFn" -> {"func"}
      [] t = "BadNode" -> {"sliceBadNode"}
      [] t = "Node" -> {"sliceNode"}
      [] t = "List" -> {"ptrList"}
      [] OTHER -> {}

CallTypes(t) == {t} \cup Readers(t)

Programs ==
    {t \in AllTypes : \A u \in AllTypes : t \notin Readers(u)}

\* the streams of at most MaxRaw bytes a caller may hand to Decode
RawBytes == {0, 2, 200}
RawStreams == UNION {[1..n -> RawBytes] : n \in 0..MaxRaw}

\* The caller's stream: byteCapable (it has the byte-at-a-time methods of
\* `writer` / `reader`, like bytes.Buffer) or plain, and the number of bytes
\* after which it fails with an I/O error, if it fails.
FailAfter == 1
Buffer == [byteCapable |-> TRUE, fails |-> FALSE, limit |-> 0]
Plain == [byteCapable |-> FALSE, fails |-> FALSE, limit |-> 0]
Failing == [byteCapable |-> TRUE, fails |-> TRUE, limit |-> FailAfter]
StreamKinds == {Buffer, Plain, Failing}

(***************************************************************************)
(* The program: calls of Encode and Decode on one stream, as testEquals    *)
(* makes them.  last.enc is the Encode call that wrote buf, last.dec the   *)
(* last Decode call made since.                                            *)
(***************************************************************************)
NoCall == [op |-> "none"]

Init ==
    /\ wt \in Programs
    /\ types = EmptyRegistry
    /\ buf = <<>>
    /\ last = [enc |-> NoCall, dec |-> NoCall]
    /\ procs = <<>>

\* Encode(w, &v) on a fresh stream w of one of the kinds
EncodeOn(kinds) ==
    \E t \in CallTypes(wt), w \in kinds, ord \in {"asc", "desc"} :
      \E v \in Values(t, MaxDepth) :
        \E e \in {EncodeValue(types, w, ord, t, v)} :
          /\ ord = "desc" => Kind(t) = "Map"
          /\ types' = e.g
          /\ buf' = e.out
          /\ last' = [enc |-> [op |-> "Encode", t |-> t, v |-> v, w |-> w, ord |-> ord,
                               out |-> e.out, res |-> Outcome(e),
                               st |-> e.st, err |-> e.err, nio |-> e.nio,
                               failed |-> e.failed, late |-> e.late],
                      dec |-> NoCall]
          /\ UNCHANGED <<wt, procs>>

\* the bytes a Decode call takes from the caller's stream: a stream that is
\* not byte-capable is read through a bufio.Reader, which takes the bytes
\* there are (fewer than its buffer's size) at its first read
Taken(w, d) ==
    IF w.byteCapable THEN d.pos - 1
    ELSE IF d.nio > 0 THEN Avail(d) ELSE 0

\* Decode(r, &dst) on the stream holding buf
DecodeOn(kinds) ==
    \E t \in CallTypes(wt), w \in kinds :
      \E dst \in Dests(t) :
        \E r \in {DecodeValue(types, w, buf, t, dst)} :
          /\ types' = r.d.g
          /\ buf' = SubSeq(buf, Taken(w, r.d) + 1, Len(buf))
          /\ last' = [last EXCEPT !.dec =
                        [op |-> "Decode", t |-> t, dst0 |-> dst, w |-> w, in |-> buf,
                         whole |-> (last.enc.op = "Encode" /\ last.dec.op = "none"),
                         v |-> r.v, res |-> Outcome(r.d), st |-> r.d.st, err |-> r.d.err,
                         used |-> r.d.pos - 1, nio |-> r.d.nio,
                         failed |-> r.d.failed, late |-> r.d.late]]
          /\ UNCHANGED <<wt, procs>>

\* the caller puts bytes of its own on the stream
Feed ==
    \E bs \in RawStreams :
        /\ buf' = bs
        /\ last' = [enc |-> NoCall, dec |-> NoCall]
        /\ UNCHANGED <<wt, types, procs>>

\* the calls on a bytes.Buffer
EncodeCall == EncodeOn({Buffer})

DecodeCall == DecodeOn({Buffer})

Next == EncodeCall \/ DecodeCall \/ Feed

Spec == Init /\ [][Next]_vars

\* the calls on any stream: byte-capable or plain, sound or failing
IOPrograms == {"int", "string", "sliceInt", "ptrInt", "marsh", "iface", "func"}

InitIO == Init /\ wt \in IOPrograms

EncodeIO == EncodeOn(StreamKinds)

DecodeIO == DecodeOn(StreamKinds)

NextIO == EncodeIO \/ DecodeIO \/ Feed

SpecIO == InitIO /\ [][NextIO]_vars

(***************************************************************************)
(* Concurrent first use.  NProcs goroutines call types.get at the same      *)
(* time and then run the machine they were given.  Each critical section   *)
(* of the RWMutex, each channel operation and each entry into the Once is  *)
(* one step.  A process is                                                 *)
(*   st     "idle", "get" (inside types.get), "exec" (running a machine),  *)
(*          "inDo" (inside the function of a Once), "done", "panicked"     *)
(*          (TypeError left types.get) or "crashed" (a runtime panic)      *)
(*   top    the type it asked for                                          *)
(*   stack  the get/register calls in progress, innermost last: the type,  *)
(*          the position in the call, the machines of the subtypes got so  *)
(*          far, and ret                                                   *)
(*   unw    a TypeError panic is unwinding the stack                       *)
(*   m      what types.get returned                                        *)
(*   at     the placeholder whose encode/decode it is entering, cur the    *)
(*          machine it is running, seen the placeholders it went through   *)
(*   ran    the machine it ran for top (has: it started running one)       *)
(*   waited it entered a Once whose channel was still empty                *)
(***************************************************************************)
ChanCap == 1

Idle ==
    [st |-> "idle", top |-> "", stack |-> <<>>, unw |-> FALSE, m |-> NilMachine,
     at |-> "", cur |-> NilMachine, seen |-> {}, ran |-> NilMachine, has |-> FALSE,
     waited |-> FALSE]

Frame(t) == [t |-> t, ph |-> "get", ms |-> <<>>, ret |-> NilMachine]

Top(me) == me.stack[Len(me.stack)]

Pop(me) == SubSeq(me.stack, 1, Len(me.stack) - 1)

\* the machines a machine holds
Parts(m) ==
    CASE m.kind \in {"compare", "array", "ptr", "slice"} -> <<m.m>>
      [] m.kind = "chan" -> <<m.m, m.ms>>
      [] m.kind = "map" -> <<m.mk, m.mv>>
      [] m.kind = "struct" -> m.ms
      [] OTHER -> <<>>

\* the types whose placeholder a machine can reach
RECURSIVE Placeholders(_)
Placeholders(m) ==
    IF m.kind = "recurse" THEN {m.t}
    ELSE UNION {Placeholders(Parts(m)[i]) : i \in 1..Len(Parts(m))}

\* types.get has returned ret to the program
Got(me, ret) ==
    [me EXCEPT !.stack = <<>>, !.st = "exec", !.m = ret,
               !.at = IF ret.kind = "recurse" THEN ret.t ELSE "",
               !.cur = ret,
               !.ran = IF ret.kind = "recurse" THEN NilMachine ELSE ret,
               !.has = ret.kind # "recurse"]

\* the innermost g.get returns ret: to the switch of the register above it,
\* or to the program
Returned(me, ret) ==
    IF Len(me.stack) = 1 THEN Got(me, ret)
    ELSE [me EXCEPT !.stack = [Pop(me) EXCEPT ![Len(me.stack) - 1].ms = Append(@, ret)]]

\* the panic leaves the innermost register: the deferred function of the
\* register above it runs next, with ret still nil
Unwound(me) ==
    IF Len(me.stack) = 1 THEN [me EXCEPT !.stack = <<>>, !.st = "panicked"]
    ELSE [me EXCEPT !.stack = [Pop(me) EXCEPT ![Len(me.stack) - 1].ph = "store"]]

At(me, ph) == me.st = "get" /\ Top(me).ph = ph

Move(me, ph) == [me EXCEPT !.stack[Len(me.stack)].ph = ph]

\* the placeholder's Once has run: m.m.encode / m.m.decode
Resolved(me, mm) ==
    [me EXCEPT !.st = "exec", !.at = "", !.seen = @ \cup {me.at}, !.cur = mm,
               !.ran = IF me.has THEN @ ELSE mm, !.has = TRUE]

RegPrograms == {"int", "Node", "List", "Ping", "recFn", "BadNode"}

\* the types the goroutines of a program ask for
RegCalls(t) == {t} \cup {Subtypes(t)[i] : i \in 1..Len(Subtypes(t))}

InitReg ==
    /\ wt \in RegPrograms
    /\ types = EmptyRegistry
    /\ buf = <<>>
    /\ last = [enc |-> NoCall, dec |-> NoCall]
    /\ procs = [p \in 1..NProcs |-> Idle]

\* Encode / Decode: types.get(v.Type())
Call(p) ==
    /\ procs[p].st = "idle"
    /\ \E t \in RegCalls(wt) :
          procs' = [procs EXCEPT ![p] = [@ EXCEPT !.st = "get", !.top = t,
                                                  !.stack = <<Frame(t)>>]]
    /\ UNCHANGED <<wt, types, buf, last>>

\* get: g.RLock(); ret, ok := g.m[t]; g.RUnlock()
GetStep(p) ==
    /\ At(procs[p], "get")
    /\ procs' = [procs EXCEPT ![p] =
                    IF Present(types, Top(@).t)
                    THEN Returned(@, types.m[Top(@).t])
                    ELSE Move(@, "register")]
    /\ UNCHANGED <<wt, types, buf, last>>

\* register: g.Lock(); the re-check; the placeholder; g.Unlock()
RegisterStep(p) ==
    /\ At(procs[p], "register")
    /\ IF Rechecked(types, Top(procs[p]).t)
       THEN /\ procs' = [procs EXCEPT ![p] = Returned(@, types.m[Top(@).t])]
            /\ UNCHANGED types
       ELSE /\ types' = Install(types, Top(procs[p]).t)
            /\ procs' = [procs EXCEPT ![p] = Move(@, "switch")]
    /\ UNCHANGED <<wt, buf, last>>

\* the switch calls g.get for the next subtype
SwitchStep(p) ==
    /\ At(procs[p], "switch")
    /\ Len(Top(procs[p]).ms) < Len(Subtypes(Top(procs[p]).t))
    /\ procs' = [procs EXCEPT ![p] =
                    [@ EXCEPT !.stack = Append(@, Frame(Subtypes(Top(procs[p]).t)
                                                           [Len(Top(procs[p]).ms) + 1]))]]
    /\ UNCHANGED <<wt, types, buf, last>>

\* the rest of register's body: ret is set, or panic(TypeError{t})
BuildStep(p) ==
    /\ At(procs[p], "switch")
    /\ Len(Top(procs[p]).ms) = Len(Subtypes(Top(procs[p]).t))
    /\ \E b \in {Build(Top(procs[p]).t, Top(procs[p]).ms)} :
          procs' = [procs EXCEPT ![p] =
                       [@ EXCEPT !.unw = b.panic,
                                 !.stack[Len(@.stack)].ret = b.ret,
                                 !.stack[Len(@.stack)].ph = "store"]]
    /\ UNCHANGED <<wt, types, buf, last>>

\* the deferred function: g.Lock(); g.m[t] = ret; g.Unlock()
StoreStep(p) ==
    /\ At(procs[p], "store")
    /\ types' = Store(types, Top(procs[p]).t, Top(procs[p]).ret)
    /\ procs' = [procs EXCEPT ![p] = Move(@, "send")]
    /\ UNCHANGED <<wt, buf, last>>

\* the deferred function: lock.c <- ret, and register returns or goes on
\* panicking
SendStep(p) ==
    /\ At(procs[p], "send")
    /\ Len(types.lk[Top(procs[p]).t].c) < ChanCap
    /\ types' = HandOff(types, Top(procs[p]).t, Top(procs[p]).ret)
    /\ procs' = [procs EXCEPT ![p] =
                    IF @.unw THEN Unwound(@) ELSE Returned(@, Top(@).ret)]
    /\ UNCHANGED <<wt, buf, last>>

\* recurseMachine: m.o.Do, first caller
OnceDo(p) ==
    /\ procs[p].st = "exec"
    /\ procs[p].at # ""
    /\ types.lk[procs[p].at].o = "new"
    /\ types' = Enter(types, procs[p].at)
    /\ procs' = [procs EXCEPT ![p].st = "inDo",
                              ![p].waited = @ \/ types.lk[procs[p].at].c = <<>>]
    /\ UNCHANGED <<wt, buf, last>>

\* recurseMachine: m.m = <-m.c inside the Once
ChanReceive(p) ==
    /\ procs[p].st = "inDo"
    /\ types.lk[procs[p].at].c # <<>>
    /\ types' = Receive(types, procs[p].at)
    /\ procs' = [procs EXCEPT ![p] = Resolved(@, Head(types.lk[procs[p].at].c))]
    /\ UNCHANGED <<wt, buf, last>>

\* recurseMachine: m.o.Do once the Once is done
OncePass(p) ==
    /\ procs[p].st = "exec"
    /\ procs[p].at # ""
    /\ types.lk[procs[p].at].o = "done"
    /\ procs' = [procs EXCEPT ![p] = Resolved(@, types.lk[procs[p].at].m)]
    /\ UNCHANGED <<wt, types, buf, last>>

\* the machine being run reaches a placeholder it holds
Visit(p) ==
    /\ procs[p].st = "exec"
    /\ procs[p].at = ""
    /\ \E t \in Placeholders(procs[p].cur) \ procs[p].seen :
          procs' = [procs EXCEPT ![p].at = t]
    /\ UNCHANGED <<wt, types, buf, last>>

\* a method call on a nil machine
Crash(p) ==
    /\ procs[p].st = "exec"
    /\ procs[p].at = ""
    /\ procs[p].cur = NilMachine
    /\ procs' = [procs EXCEPT ![p].st = "crashed"]
    /\ UNCHANGED <<wt, types, buf, last>>

\* the machine has run
Finish(p) ==
    /\ procs[p].st = "exec"
    /\ procs[p].at = ""
    /\ procs[p].cur # NilMachine
    /\ procs' = [procs EXCEPT ![p].st = "done"]
    /\ UNCHANGED <<wt, types, buf, last>>

Resolution(p) ==
    \/ Call(p) \/ GetStep(p) \/ RegisterStep(p) \/ SwitchStep(p)
    \/ BuildStep(p) \/ StoreStep(p) \/ SendStep(p)

Execution(p) ==
    \/ OnceDo(p) \/ ChanReceive(p) \/ OncePass(p) \/ Visit(p) \/ Crash(p) \/ Finish(p)

NextReg == \E p \in 1..NProcs : Resolution(p) \/ Execution(p)

SpecReg == InitReg /\ [][NextReg]_vars

(***************************************************************************)
(* First use of the self-referential and the mutually-referential types.   *)
(* While some goroutine can take a step, a step is eventually taken: the   *)
(* Go scheduler keeps running runnable goroutines, and the registry's      *)
(* mutex is held for a map access only.                                    *)
(***************************************************************************)
\* type Tree struct{ Kids []Tree }, and type Even []Odd with type Odd []Even
FirstUsePrograms == {"Tree", "Even"}

InitFirstUse ==
    /\ wt \in FirstUsePrograms
    /\ types = EmptyRegistry
    /\ buf = <<>>
    /\ last = [enc |-> NoCall, dec |-> NoCall]
    /\ procs = [p \in 1..NProcs |-> Idle]

\* the call runs the machine it was given
Running(p) == OnceDo(p) \/ ChanReceive(p) \/ OncePass(p) \/ Visit(p) \/ Finish(p)

Step(p) == Resolution(p) \/ Running(p)

NextFirstUse == \E p \in 1..NProcs : Step(p)

SpecFirstUse ==
    InitFirstUse /\ [][NextFirstUse]_vars /\ WF_vars(NextFirstUse)

(***************************************************************************)
(* Properties of the calls on a stream.                                    *)
(***************************************************************************)
Encoded == last.enc.op = "Encode"

Decoded == last.dec.op = "Decode"

\* the last Decode call read the stream just as a successful Encode left it
Fed == Encoded /\ Decoded /\ last.dec.whole /\ last.enc.res = "ok"

\* register builds a machine for t in a fresh registry
Supported(t) == ~get(EmptyRegistry, t).panic

\* the destination is fresh, or for an interface holds an instance of the
\* concrete type of the value encoded
FitDest ==
    \/ last.dec.dst0 = Zero(last.dec.t)
    \/ /\ Kind(last.dec.t) = "Interface"
       /\ ~last.enc.v.nil
       /\ ~last.dec.dst0.nil
       /\ last.dec.dst0.t = last.enc.v.t

\* C1: Encode(v) into a buffer followed by Decode of those bytes into a
\* destination of the same supported type returns no error and leaves the
\* destination deep-equal to v.
RoundTrip ==
    (/\ Fed
     /\ last.dec.t = last.enc.t
     /\ Supported(last.enc.t)
     /\ Kind(last.enc.t) # "Chan"
     /\ FitDest)
    => (last.dec.res = "ok" /\ last.dec.v = last.enc.v)

\* C2: when the writer is not byte-capable, an Encode call that succeeds on
\* a byte-capable buffer succeeds on it as well and produces the same bytes,
\* without crashing.
AnySink ==
    (Encoded /\ ~last.enc.w.byteCapable)
    => \A b \in {EncodeValue(types, Buffer, last.enc.ord, last.enc.t, last.enc.v)} :
         b.st = "ok" => (last.enc.res = "ok" /\ last.enc.out = b.out)

\* the encoding of t uses a single leading 0 byte for zero / absent
UsesZeroByte(t) ==
    \/ Kind(t) \in {"Ptr", "Chan", "Interface"}
    \/ (t \in DOMAIN types.m /\ types.m[t].kind = "compare")

\* C3: for every type whose encoding uses a leading 0 byte to mean zero or
\* absent, the encoding of a value that is not the zero / absent value never
\* begins with a 0 byte.
NonZeroNeverZeroByte ==
    (/\ Encoded
     /\ last.enc.res = "ok"
     /\ UsesZeroByte(last.enc.t)
     /\ last.enc.v # Zero(last.enc.t))
    => (last.enc.out # <<>> /\ last.enc.out[1] # 0)

\* C4: Encode of the zero value of a comparable type writes exactly one
\* byte, whose value is 0.
ZeroIsOneByte ==
    (/\ Encoded
     /\ last.enc.res = "ok"
     /\ Comparable(last.enc.t)
     /\ last.enc.v = Zero(last.enc.t))
    => last.enc.out = <<0>>

\* the call c, on a value or destination of type c.t, failed with a
\* TypeError naming the type register rejects
Rejected(c) == c.st = "TypeError" /\ c.err = get(EmptyRegistry, c.t).perr

\* C5: every Encode and Decode attempt on an unsupported type, the first
\* and every later one, fails with a TypeError naming the offending type.
AlwaysTypeError ==
    /\ (Encoded /\ ~Supported(last.enc.t)) => Rejected(last.enc)
    /\ (Decoded /\ ~Supported(last.dec.t)) => Rejected(last.dec)

\* the entry-point calls on record
Calls == {c \in {last.enc, last.dec} : c.op # "none"}

\* C6 (as stated): every failure class, a type error included, aborts the
\* call and is returned to the caller as the call's error value, and no read
\* or write is issued to the stream after the first failure.
AllFailuresReturned ==
    \A c \in Calls : c.st \in {"TypeError", "noPanic"} => (c.res = "error" /\ c.late = 0)

\* C6 (amended): an I/O failure (unexpected end of stream included) and a
\* custom-marshal failure abort the call and are returned as its error
\* value; a type error aborts the call and leaves the entry point as a
\* panic; no read or write is issued to the stream after the first failure.
FailuresAbort ==
    \A c \in Calls :
        /\ c.failed => (c.st = "noPanic" /\ c.err \in {"io", "EOF", "UnexpectedEOF"})
        /\ c.st = "noPanic" => c.res = "error"
        /\ c.st = "TypeError" => c.res = "panic"
        /\ c.late = 0

\* an Encode call whose stream failed at its second write, and returned the
\* failure
IOFailureReturned ==
    /\ Encoded
    /\ last.enc.failed
    /\ last.enc.nio >= 2
    /\ last.enc.res = "error"

\* C7: a channel of n >= 1 elements that is closed, encoded and decoded
\* into a nil channel destination, yields a channel of capacity n holding
\* the elements in order.
ChanRoundTrip ==
    (/\ Fed
     /\ last.dec.t = last.enc.t
     /\ Kind(last.enc.t) = "Chan"
     /\ ~last.enc.v.nil
     /\ last.enc.v.q # <<>>
     /\ last.dec.dst0 = NilChan)
    => (/\ last.dec.res = "ok"
        /\ ~last.dec.v.nil
        /\ last.dec.v.cap = Len(last.enc.v.q)
        /\ last.dec.v.q = last.enc.v.q)

\* C8: Decode into an interface destination that holds no value returns an
\* error or leaves the destination absent, for any input; and the single
\* byte 0 resets a pre-populated destination to absent.
NilInterfaceSafe ==
    /\ (Decoded /\ last.dec.t = "iface" /\ last.dec.dst0 = NilIface)
       => \/ last.dec.res = "error"
          \/ (last.dec.res = "ok" /\ last.dec.v = NilIface)
    /\ (Decoded /\ last.dec.t = "iface" /\ last.dec.in = <<0>>)
       => (last.dec.res = "ok" /\ last.dec.v = NilIface)

\* the positions of a record or array type, and of a value of one
Count(t) == IF Kind(t) = "Array" THEN Desc(t).len ELSE Len(Desc(t).fields)

Positions(v) == IF v.k = "array" THEN v.s ELSE v.f

\* C9: after Decode of a record or array of stored count N into a local
\* type of count L > N, every position N..L-1 holds its zero value,
\* whatever the destination held before the call.
GrowthZeroFills ==
    (/\ Fed
     /\ last.dec.t \in Readers(last.enc.t)
     /\ Kind(last.enc.t) \in {"Array", "Struct"}
     /\ Kind(last.dec.t) = Kind(last.enc.t)
     /\ last.dec.res = "ok")
    => \A i \in (Count(last.enc.t) + 1)..Count(last.dec.t) :
         Positions(last.dec.v)[i] = Positions(Zero(last.dec.t))[i]

(***************************************************************************)
(* Properties of concurrent first use.                                     *)
(***************************************************************************)
\* m is the machine register builds for t from machines of t's subtypes,
\* each the subtype's placeholder or its own finished machine
RECURSIVE Finished(_, _)
Finished(m, t) ==
    /\ m.kind \notin {"nil", "recurse"}
    /\ Len(Parts(m)) = Len(Subtypes(t)) \/ m.kind \in {"compare", "marshaler"}
    /\ LET ps == IF m.kind = "compare" THEN Parts(m.m) ELSE Parts(m) IN
       /\ Len(ps) = Len(Subtypes(t)) \/ m.kind = "marshaler"
       /\ m.kind # "marshaler" =>
             /\ ~Build(t, ps).panic
             /\ Build(t, ps).ret = m
             /\ \A i \in 1..Len(ps) :
                   \/ ps[i] = recurseMachine(Subtypes(t)[i])
                   \/ Finished(ps[i], Subtypes(t)[i])

\* the build step ran at most once for each type
BuiltOnce == \A t \in DOMAIN types.builds : types.builds[t] <= 1

\* the entry for T is T's placeholder or T's finished machine
OwnEntries ==
    \A t \in DOMAIN types.m : types.m[t] = recurseMachine(t) \/ Finished(types.m[t], t)

\* one send and at most one receive on each placeholder's channel, and a
\* placeholder that has resolved holds what was sent
HandOffOnce ==
    \A t \in DOMAIN types.lk :
        /\ types.lk[t].sent <= 1
        /\ types.lk[t].rcvd <= 1
        /\ types.lk[t].o = "done" =>
              /\ types.lk[t].sent = 1
              /\ types.lk[t].rcvd = 1
              /\ types.lk[t].m = types.m[t]

\* a caller that was given an entry or a placeholder runs the finished
\* machine that is in the registry
SameMachine ==
    \A p \in DOMAIN procs :
        /\ procs[p].st # "crashed"
        /\ procs[p].has => /\ procs[p].ran = types.m[procs[p].top]
                           /\ Finished(procs[p].ran, procs[p].top)

\* C10: under any interleaving of concurrent get/register calls the build
\* step runs at most once per type, the registry entry for T is only ever
\* T's placeholder or T's finished machine, every caller that was given the
\* entry or the placeholder runs the one same finished machine, and the
\* placeholder's hand-off fires once.
IdempotentCompilation == BuiltOnce /\ OwnEntries /\ HandOffOnce /\ SameMachine

\* the types whose compilation panics
Sound == Supported(wt)

\* C10 for the programs whose types all compile
IdempotentWhenSupported == Sound => IdempotentCompilation

\* two callers have run the machine of the same self-referential type, one
\* of them through the placeholder it was given during compilation
SharedThroughPlaceholder ==
    /\ Sound
    /\ \E p, q \in DOMAIN procs :
          /\ p # q
          /\ procs[p].st = "done" /\ procs[q].st = "done"
          /\ procs[p].top = procs[q].top
          /\ procs[p].m = recurseMachine(procs[p].top)
          /\ procs[q].m # recurseMachine(procs[q].top)

(***************************************************************************)
(* Properties of blocking.                                                 *)
(***************************************************************************)
\* the Encode call was given a channel that holds a channel value
EncodedChan == Encoded /\ Kind(last.enc.t) = "Chan" /\ ~last.enc.v.nil

\* the Decode call was given a channel destination
DecodedChan == Decoded /\ Kind(last.dec.t) = "Chan"

\* Encode of a non-nil channel returns exactly when the channel is closed,
\* and no other Encode call blocks
EncodeBlocksUntilClosed ==
    /\ EncodedChan => (last.enc.res = "blocked" <=> ~last.enc.v.closed)
    /\ (Encoded /\ last.enc.res = "blocked") => EncodedChan

\* Decode never blocks, whatever the destination held; a channel it fills
\* is open and its capacity is the number of elements decoded
DecodeNeverBlocks ==
    /\ Decoded => last.dec.res # "blocked"
    /\ (DecodedChan /\ last.dec.res = "ok" /\ ~last.dec.v.nil)
       => (/\ ~last.dec.v.closed
           /\ last.dec.v.cap = Len(last.dec.v.q))

\* C11: channel encoding is the only operation that can block: Encode of a
\* non-nil channel returns only once the channel is closed, and Decode of a
\* channel never blocks, for a nil destination and for a destination that
\* already holds a channel of any capacity.
OnlyChanEncodeBlocks == EncodeBlocksUntilClosed /\ DecodeNeverBlocks

\* Decode never blocks when the destination is a nil channel
NilChanDecodeNeverBlocks ==
    (DecodedChan /\ last.dec.dst0 = NilChan) => last.dec.res # "blocked"

\* a Decode call filled a destination that already held a channel
DecodedIntoHeldChan ==
    /\ DecodedChan /\ ~last.dec.dst0.nil /\ last.dec.res = "ok"
    /\ ~last.dec.v.nil /\ last.dec.v.q # <<>>

(***************************************************************************)
(* Properties of first use.                                                *)
(***************************************************************************)
\* p is at a placeholder whose Once it cannot get through yet
Blocked(p) ==
    \/ procs[p].st = "inDo" /\ types.lk[procs[p].at].c = <<>>
    \/ procs[p].st = "exec" /\ procs[p].at # "" /\ types.lk[procs[p].at].o = "running"

\* a goroutine inside types.get can always take its next step
CompilationNeverWaits ==
    \A p \in 1..NProcs : procs[p].st = "get" => ENABLED Resolution(p)

\* once the finished machine has been handed to a placeholder, nobody at
\* the placeholder waits for anything but the goroutine taking it out
NoReblocking ==
    \A p \in 1..NProcs :
        /\ (procs[p].st = "inDo" /\ types.lk[procs[p].at].sent = 1) => ENABLED ChanReceive(p)
        /\ (procs[p].st = "exec" /\ procs[p].at # "" /\ types.lk[procs[p].at].o = "done")
           => ENABLED OncePass(p)
        /\ (Blocked(p) /\ procs[p].st = "exec" /\ types.lk[procs[p].at].sent = 1)
           => \E q \in 1..NProcs : q # p /\ procs[q].at = procs[p].at /\ ENABLED ChanReceive(q)

\* every call has completed its registry resolution and the run of its
\* machine; a goroutine that is blocked, or still inside types.get, is
\* not done
AllDone == \A p \in 1..NProcs : procs[p].st = "done" /\ ~Blocked(p)

\* C12: on the first use of a self-referential record type and of a
\* mutually-referential pair by concurrent goroutines, compilation never
\* waits on a placeholder, a goroutine blocked on a placeholder is released
\* once the compiling goroutine publishes, no waiter blocks again once the
\* finished machine is available, and every call completes: from some
\* point on every goroutine has made its call, has been released wherever
\* it was blocked, and is done.
NoDeadlockOnFirstUse ==
    /\ []CompilationNeverWaits
    /\ []NoReblocking
    /\ <>[]AllDone

\* a goroutine that waited on a placeholder for the compiling goroutine has
\* been released and has finished its call
WaiterReleased ==
    \E p \in 1..NProcs : procs[p].waited /\ procs[p].st = "done"

====
